---- MODULE Spec2Model ----
(***************************************************************************)
(* md_to_html (src/src/main.rs): the conversion pipeline                   *)
(*   parse_file -> classify_lines -> parse_line -> convert_lines ->        *)
(*   wrap_html -> fs::write                                                *)
(* and the watch/reload bridge (watcher callback, HTTP handlers, the       *)
(* shared AtomicBool reload_flag).                                         *)
(*                                                                         *)
(* Text is a sequence of characters; a character is a one-element string.  *)
(* A TLA+ string literal cannot hold a backtick, so that character and the *)
(* two-byte letter U+00E9 are named (BT, EACUTE).                          *)
(***************************************************************************)
EXTENDS Naturals, Integers, Sequences, FiniteSets, TLC

VARIABLES
    \* ---- main's arguments and the two files
    watch,          \* args.watch
    inputFile,      \* the content of the input file (args.input)
    outputFile,     \* the content of the output file (args.output)
    \* ---- one run of convert() (main.rs 225-253), step by step
    lines,          \* the raw lines parse_file returned (kept for reference)
    line_states,    \* classify_lines' result
    file_lines,     \* file_lines: parse_file's result, then rewritten by the parse_line loop
    text,           \* convert_lines' result (the body)
    stage,          \* where main/convert stands
    \* ---- the watch/reload bridge
    reload_flag,    \* the shared AtomicBool
    events,         \* notify results queued for the watcher callback (delivered serially)
    wpc,            \* the watcher callback's position
    wbuf,           \* the input content the callback's convert() has read
    hpc,            \* each request thread's position
    connected,      \* whether the request's client still holds the connection
    mpc,            \* main's position in the whole-program specification
    \* ---- history variables (not program state)
    nevents,        \* notify results produced so far
    written,        \* conversions completed and written by the callback
    stored,         \* reload_flag.store(true) executed by the callback
    firstPoll,      \* the value of `stored` at the first load of the flag by any handler, -1 before
    seen,           \* per handler: the value of `stored` when it loaded true, 0 before
    delivered,      \* per handler: its reload event reached its client
    raced           \* a handler loaded true while another had loaded true and not yet reset

fileVars == <<inputFile, outputFile>>
pipeVars == <<lines, line_states, file_lines, text, stage>>
liveVars == <<reload_flag, events, wpc, wbuf, hpc, connected, mpc>>
histVars == <<nevents, written, stored, firstPoll, seen, delivered, raced>>
vars == <<watch, fileVars, pipeVars, liveVars, histVars>>

----------------------------------------------------------------------------
(* Characters *)

BT == "BACKTICK"
EACUTE == "U+00E9"
LF == "\n"
CR == "\r"

\* char::is_alphanumeric on the characters used here
Alphanumeric == {"a", "b", "c", "1", "2", EACUTE}

is_alphanumeric(c) == c \in Alphanumeric

\* char::len_utf8
len_utf8(c) == IF c = EACUTE THEN 2 ELSE 1

\* The value that stands for a panic of the thread computing a text.
Panic == <<"PANIC">>

----------------------------------------------------------------------------
(* Text helpers: str::starts_with, str::find, byte-indexed slicing *)

StartsWith(s, p) == Len(p) <= Len(s) /\ SubSeq(s, 1, Len(p)) = p

EndsWith(s, p) == Len(p) <= Len(s) /\ SubSeq(s, Len(s) - Len(p) + 1, Len(s)) = p

\* The least position >= from at which p occurs in s, 0 when there is none.
RECURSIVE Find(_, _, _)
Find(s, p, from) ==
    IF from + Len(p) - 1 > Len(s) THEN 0
    ELSE IF SubSeq(s, from, from + Len(p) - 1) = p THEN from
    ELSE Find(s, p, from + 1)

Contains(s, p) == Find(s, p, 1) # 0

\* Number of (possibly overlapping) occurrences of p in s.
RECURSIVE CountFrom(_, _, _)
CountFrom(s, p, from) ==
    LET at == Find(s, p, from)
    IN  IF at = 0 THEN 0 ELSE 1 + CountFrom(s, p, at + 1)

Count(s, p) == CountFrom(s, p, 1)

\* str::len of the first k characters, in bytes
RECURSIVE ByteLen(_, _)
ByteLen(s, k) == IF k = 0 THEN 0 ELSE ByteLen(s, k - 1) + len_utf8(s[k])

\* &s[b..]: b is a byte offset; it panics when b is past the end or inside a
\* character (core::str slice_error_fail).
ByteSliceFrom(s, b) ==
    IF s = Panic THEN Panic
    ELSE IF \E k \in 0..Len(s) : ByteLen(s, k) = b
         THEN LET k == CHOOSE k \in 0..Len(s) : ByteLen(s, k) = b
              IN  SubSeq(s, k + 1, Len(s))
         ELSE Panic

\* str::trim_end_matches('\r')
RECURSIVE trim_end_cr(_)
trim_end_cr(s) ==
    IF s # <<>> /\ s[Len(s)] = CR THEN trim_end_cr(SubSeq(s, 1, Len(s) - 1)) ELSE s

\* format!: a panic of an argument's evaluation is a panic of the whole
Wrap3(pre, mid, post) == IF mid = Panic THEN Panic ELSE pre \o mid \o post

----------------------------------------------------------------------------
(* Literals of main.rs *)

FENCE == <<BT, BT, BT>>                            \* "```"
DASH_SPACE == <<"-", " ">>                         \* "- "
LI_OPEN == <<"<", "l", "i", ">">>
LI_CLOSE == <<"<", "/", "l", "i", ">">>
OL_OPEN == <<"<", "o", "l", ">">>
OL_CLOSE == <<"<", "/", "o", "l", ">">>
UL_OPEN == <<"<", "u", "l", ">">>
UL_CLOSE == <<"<", "/", "u", "l", ">">>
P_OPEN == <<"<", "p", ">">>
P_CLOSE == <<"<", "/", "p", ">">>
PRE_OPEN == <<"<", "p", "r", "e", ">", "<", "c", "o", "d", "e", ">">>
PRE_CLOSE == <<"<", "/", "c", "o", "d", "e", ">", "<", "/", "p", "r", "e", ">">>
STRONG_OPEN == <<"<", "s", "t", "r", "o", "n", "g", ">">>
STRONG_CLOSE == <<"<", "/", "s", "t", "r", "o", "n", "g", ">">>
EM_OPEN == <<"<", "e", "m", ">">>
EM_CLOSE == <<"<", "/", "e", "m", ">">>
A_OPEN == <<"<", "a", " ", "h", "r", "e", "f", "=", "\"">>
A_MID == <<"\"", ">">>
A_CLOSE == <<"<", "/", "a", ">">>
HR == <<"<", "h", "r", "/", ">">>
HR_LINE == <<"-", "-", "-">>
CODE_OPEN == <<"<", "c", "o", "d", "e", ">">>
CODE_CLOSE == <<"<", "/", "c", "o", "d", "e", ">">>

\* LIVE_RELOAD_SCRIPT, main.rs 15-20, shortened to its tags and the endpoint
LIVE_RELOAD_SCRIPT ==
    <<LF, "<", "s", "c", "r", "i", "p", "t", ">", "/", "r", "e", "l", "o", "a", "d",
      "<", "/", "s", "c", "r", "i", "p", "t", ">", LF>>

DOC_HEAD == <<"<", "!", "D", "O", "C", "T", "Y", "P", "E", " ", "h", "t", "m", "l", ">",
              "<", "h", "e", "a", "d", ">", "<", "s", "t", "y", "l", "e", ">">>
DOC_TITLE == <<"<", "/", "s", "t", "y", "l", "e", ">", "<", "t", "i", "t", "l", "e", ">">>
DOC_BODY == <<"<", "/", "t", "i", "t", "l", "e", ">", "<", "/", "h", "e", "a", "d", ">",
              "<", "b", "o", "d", "y", ">">>
DOC_END == <<"<", "/", "b", "o", "d", "y", ">">>

DigitChar(i) == <<"0", "1", "2", "3", "4", "5", "6", "7", "8", "9">>[i + 1]

----------------------------------------------------------------------------
(* Inline transformer: parse_headings, parse_lists, the five regexes, parse_line *)

Hashes(n) == [k \in 1..n |-> "#"]

\* main.rs 65-74: the loop `for i in (1..=6).rev()`, entered at i
RECURSIVE HeadingFrom(_, _)
HeadingFrom(line, i) ==
    IF i = 0 THEN line                                          \* line 75
    ELSE IF StartsWith(line, Hashes(i) \o <<" ">>)
         THEN Wrap3(<<"<", "h", DigitChar(i), ">">>,
                    ByteSliceFrom(line, i + 1),
                    <<"<", "/", "h", DigitChar(i), ">">>)
         ELSE HeadingFrom(line, i - 1)

MaxHeading == 6

\* parse_headings with the loop started at 5: `(1..6).rev()` for `(1..=6).rev()`
parse_headings_UpTo5(line) == HeadingFrom(trim_end_cr(line), MaxHeading - 1)

parse_headings(line) == HeadingFrom(trim_end_cr(line), MaxHeading)

\* The scan of main.rs 85-97 (and, on the raw line, of 124-136), entered at the
\* character of 0-based index i: the index of the '.' of a marker
\* "alphanumerics . space", or -1 when the scan breaks without one.
RECURSIVE MarkerScan(_, _)
MarkerScan(line, i) ==
    IF i >= Len(line) THEN -1
    ELSE LET c == line[i + 1]
         IN  IF is_alphanumeric(c) THEN MarkerScan(line, i + 1)
             ELSE IF c = "." /\ i > 0
                  THEN IF i + 1 < Len(line) /\ line[i + 2] = " " THEN i ELSE -1
                  ELSE -1

MarkerDot(line) == MarkerScan(line, 0)

\* main.rs 81-83
DashItem(line) ==
    IF StartsWith(line, DASH_SPACE)
    THEN Wrap3(LI_OPEN, ByteSliceFrom(line, 2), LI_CLOSE)
    ELSE line

\* main.rs 85-98
OrderedItem(line) ==
    IF line = Panic THEN Panic
    ELSE LET i == MarkerDot(line)
         IN  IF i >= 0 THEN Wrap3(LI_OPEN, ByteSliceFrom(line, i + 2), LI_CLOSE)
             ELSE line

parse_lists(line) ==
    IF line = Panic THEN Panic ELSE OrderedItem(DashItem(trim_end_cr(line)))

\* Regex::replace_all of  open(.*?)close  by  pre $1 post : leftmost match,
\* shortest capture, then on from the end of the match.
RECURSIVE ReplaceSpan(_, _, _, _, _)
ReplaceSpan(s, open, close, pre, post) ==
    LET a == Find(s, open, 1)
        e == IF a = 0 THEN 0 ELSE Find(s, close, a + Len(open))
    IN  IF e = 0 THEN s
        ELSE SubSeq(s, 1, a - 1) \o pre \o SubSeq(s, a + Len(open), e - 1) \o post
             \o ReplaceSpan(SubSeq(s, e + Len(close), Len(s)), open, close, pre, post)

\* Regex::replace_all of  \[(.*?)\]\((.*?)\)  by  <a href="$2">$1</a>
RECURSIVE ReplaceLink(_)
ReplaceLink(s) ==
    LET a == Find(s, <<"[">>, 1)
        q == IF a = 0 THEN 0 ELSE Find(s, <<"]", "(">>, a + 1)
        r == IF q = 0 THEN 0 ELSE Find(s, <<")">>, q + 2)
    IN  IF r = 0 THEN s
        ELSE SubSeq(s, 1, a - 1) \o A_OPEN \o SubSeq(s, q + 2, r - 1) \o A_MID
             \o SubSeq(s, a + 1, q - 1) \o A_CLOSE
             \o ReplaceLink(SubSeq(s, r + 1, Len(s)))

\* Regex::replace_all of  ^---$  by  <hr/>
ReplaceRule(s) == IF s = HR_LINE THEN HR ELSE s

\* InlineSpans with the italic pattern listed before the bold one
InlineSpans_ItalicFirst(s) ==
    LET ital == ReplaceSpan(s, <<"*">>, <<"*">>, EM_OPEN, EM_CLOSE)
        bold == ReplaceSpan(ital, <<"*", "*">>, <<"*", "*">>, STRONG_OPEN, STRONG_CLOSE)
        link == ReplaceLink(bold)
        rule == ReplaceRule(link)
    IN  ReplaceSpan(rule, <<BT>>, <<BT>>, CODE_OPEN, CODE_CLOSE)

\* main.rs 105-107 with the regexes and replacements of 228-241, in their order
InlineSpans(s) ==
    LET bold == ReplaceSpan(s, <<"*", "*">>, <<"*", "*">>, STRONG_OPEN, STRONG_CLOSE)
        ital == ReplaceSpan(bold, <<"*">>, <<"*">>, EM_OPEN, EM_CLOSE)
        link == ReplaceLink(ital)
        rule == ReplaceRule(link)
    IN  ReplaceSpan(rule, <<BT>>, <<BT>>, CODE_OPEN, CODE_CLOSE)

\* main.rs 108-110
FenceCleanup(s) == IF StartsWith(s, FENCE) THEN <<>> ELSE s

parse_line(line) ==
    LET l == parse_lists(parse_headings(line))
    IN  IF l = Panic THEN Panic ELSE FenceCleanup(InlineSpans(l))

----------------------------------------------------------------------------
(* Line loader: parse_file, main.rs 41-59 *)

\* The loop of 47-54 over the characters from position k on, cur being current_line
RECURSIVE SplitFrom(_, _, _)
SplitFrom(contents, k, cur) ==
    IF k > Len(contents)
    THEN IF cur # <<>> THEN <<cur>> ELSE <<>>              \* 55-57
    ELSE IF contents[k] # LF
         THEN SplitFrom(contents, k + 1, Append(cur, contents[k]))
         ELSE <<cur>> \o SplitFrom(contents, k + 1, <<>>)

parse_file(contents) == SplitFrom(contents, 1, <<>>)

----------------------------------------------------------------------------
(* Block classifier: classify_lines, main.rs 114-154 *)

States == {"Normal", "OrderedList", "UnorderedList", "Code"}

\* 115-121
UnorderedPass(ls) ==
    [i \in 1..Len(ls) |-> IF StartsWith(ls[i], DASH_SPACE) THEN "UnorderedList" ELSE "Normal"]

\* 123-137
OrderedPass(ls, st) ==
    [i \in 1..Len(ls) |-> IF MarkerDot(ls[i]) >= 0 THEN "OrderedList" ELSE st[i]]

\* 141: the test that a line is a fence
IsFence(line) == StartsWith(line, FENCE)

\* CodePass that skips every fence line, the opening one too
RECURSIVE CodePass_SkipsFences(_, _, _)
CodePass_SkipsFences(ls, st, k) ==
    IF k = 0 THEN [states |-> st, inside |-> FALSE]
    ELSE LET prev == CodePass_SkipsFences(ls, st, k - 1)
             inside == IF IsFence(ls[k]) THEN ~prev.inside ELSE prev.inside
         IN  [states |-> IF ~IsFence(ls[k]) /\ inside
                         THEN [prev.states EXCEPT ![k] = "Code"]
                         ELSE prev.states,
              inside |-> inside]

\* 139-152: the states and inside_code_block after the first k lines
RECURSIVE CodePass(_, _, _)
CodePass(ls, st, k) ==
    IF k = 0 THEN [states |-> st, inside |-> FALSE]
    ELSE LET prev == CodePass(ls, st, k - 1)
             closing == IsFence(ls[k]) /\ prev.inside            \* 142-145: continue
             inside == IF IsFence(ls[k]) THEN ~prev.inside ELSE prev.inside
         IN  [states |-> IF ~closing /\ inside
                         THEN [prev.states EXCEPT ![k] = "Code"]
                         ELSE prev.states,
              inside |-> inside]

classify_lines(ls) == CodePass(ls, OrderedPass(ls, UnorderedPass(ls)), Len(ls)).states

----------------------------------------------------------------------------
(* Block renderer: convert_lines, main.rs 156-216 *)

\* is_plain without the test for a leading <
is_plain_AnyText(line, state) == state = "Normal" /\ line # <<>>

\* 164
is_plain(line, state) == state = "Normal" /\ line # <<>> /\ ~StartsWith(line, <<"<">>)

\* Transition that replaces the line leaving a list by the closing tag alone
Transition_DropsLineAfterList(previous_state, state, line) ==
    IF previous_state = state THEN line
    ELSE CASE state = "OrderedList" -> OL_OPEN \o <<LF>> \o line
           [] state = "UnorderedList" -> UL_OPEN \o <<LF>> \o line
           [] state = "Code" -> PRE_OPEN
           [] state = "Normal" ->
                CASE previous_state = "OrderedList" -> OL_CLOSE
                  [] previous_state = "UnorderedList" -> UL_CLOSE
                  [] previous_state = "Code" -> PRE_CLOSE

\* Transition with the arm Code of `State::Normal => match previous_state` left empty
Transition_NoCodeClose(previous_state, state, line) ==
    IF previous_state = state THEN line
    ELSE CASE state = "OrderedList" -> OL_OPEN \o <<LF>> \o line
           [] state = "UnorderedList" -> UL_OPEN \o <<LF>> \o line
           [] state = "Code" -> PRE_OPEN
           [] state = "Normal" ->
                CASE previous_state = "OrderedList" -> line \o <<LF>> \o OL_CLOSE
                  [] previous_state = "UnorderedList" -> line \o <<LF>> \o UL_CLOSE
                  [] previous_state = "Code" -> line

\* 180-204: the line as wrapped at a change of state
Transition(previous_state, state, line) ==
    IF previous_state = state THEN line
    ELSE CASE state = "OrderedList" -> OL_OPEN \o <<LF>> \o line
           [] state = "UnorderedList" -> UL_OPEN \o <<LF>> \o line
           [] state = "Code" -> PRE_OPEN
           [] state = "Normal" ->
                CASE previous_state = "OrderedList" -> line \o <<LF>> \o OL_CLOSE
                  [] previous_state = "UnorderedList" -> line \o <<LF>> \o UL_CLOSE
                  [] previous_state = "Code" -> PRE_CLOSE

\* RenderStep whose block branch does not end the open paragraph (175-178 left out)
RenderStep_KeepsParagraph(st, line, state) ==
    IF is_plain(line, state)
    THEN [text |-> st.text \o (IF ~st.in_paragraph THEN P_OPEN ELSE <<" ">>) \o line,
          previous_state |-> st.previous_state,
          in_paragraph |-> TRUE]
    ELSE [text |-> st.text \o Transition(st.previous_state, state, line) \o <<LF>>,
          previous_state |-> state,
          in_paragraph |-> st.in_paragraph]

\* RenderStep without the `else { text.push(' ') }` of 170-172
RenderStep_NoSeparator(st, line, state) ==
    IF is_plain(line, state)
    THEN [text |-> st.text \o (IF ~st.in_paragraph THEN P_OPEN ELSE <<>>) \o line,
          previous_state |-> st.previous_state,
          in_paragraph |-> TRUE]
    ELSE [text |-> st.text \o (IF st.in_paragraph THEN P_CLOSE \o <<LF>> ELSE <<>>)
                   \o Transition(st.previous_state, state, line) \o <<LF>>,
          previous_state |-> state,
          in_paragraph |-> FALSE]

\* 161-209: one iteration of the loop, from the loop state st
RenderStep(st, line, state) ==
    IF is_plain(line, state)
    THEN [text |-> st.text \o (IF ~st.in_paragraph THEN P_OPEN ELSE <<" ">>) \o line,
          previous_state |-> st.previous_state,
          in_paragraph |-> TRUE]
    ELSE [text |-> st.text \o (IF st.in_paragraph THEN P_CLOSE \o <<LF>> ELSE <<>>)
                   \o Transition(st.previous_state, state, line) \o <<LF>>,
          previous_state |-> state,
          in_paragraph |-> FALSE]

\* 157-160 and the first k iterations
RECURSIVE RenderLoop(_, _, _)
RenderLoop(ls, st, k) ==
    IF k = 0 THEN [text |-> <<>>, previous_state |-> "Normal", in_paragraph |-> FALSE]
    ELSE RenderStep(RenderLoop(ls, st, k - 1), ls[k], st[k])

\* 211-215
convert_lines(ls, st) ==
    LET end == RenderLoop(ls, st, Len(ls))
    IN  IF end.in_paragraph THEN end.text \o P_CLOSE ELSE end.text

----------------------------------------------------------------------------
(* Document wrapper and convert, main.rs 218-253 *)

INPUT_PATH == <<"i", "n">>        \* args.input, the title
STYLE == <<"s">>                  \* the style sheet text

wrap_html(body, title, style) ==
    DOC_HEAD \o style \o DOC_TITLE \o title \o DOC_BODY \o body \o LIVE_RELOAD_SCRIPT \o DOC_END

\* TransformLines that removes a line parse_line left empty instead of keeping it
TransformLines_DropBlank(ls, st) ==
    SelectSeq([i \in 1..Len(ls) |-> IF st[i] # "Code" THEN parse_line(ls[i]) ELSE ls[i]],
              LAMBDA l : l # <<>>)

\* 244-248
TransformLines(ls, st) ==
    [i \in 1..Len(ls) |-> IF st[i] # "Code" THEN parse_line(ls[i]) ELSE ls[i]]

Panics(ls) == \E i \in 1..Len(ls) : ls[i] = Panic

\* 226-251 as one computation: the text written to the output, or Panic
convert(contents) ==
    LET ls == parse_file(contents)
        st == classify_lines(ls)
        tl == TransformLines(ls, st)
    IN  IF Panics(tl) THEN Panic
        ELSE wrap_html(convert_lines(tl, st), INPUT_PATH, STYLE)

----------------------------------------------------------------------------
(* Inputs *)

MaxLines == 3        \* lines of a document built from Pool
MaxHashes == 7       \* leading '#' of a heading-like line
MaxWide == 3         \* two-byte letters before a list marker's '.'

\* One line of each kind the classifier, the transformer and the renderer tell apart.
Pool ==
    { <<>>,                           \* blank
      <<"a">>, <<"b">>,               \* plain text
      <<"-", " ", "a">>,              \* "- a"
      <<"-", " ", "b">>,              \* "- b"
      <<"1", ".", " ", "a">>,         \* "1. a"
      FENCE,                          \* a fence
      FENCE \o <<"a">>,               \* a fence with text after the marker
      <<" ">> \o FENCE,               \* a fence after leading whitespace
      <<"#", " ", "a">>,              \* "# a"
      <<"<", "b", ">">> }             \* raw HTML

Tails == { <<>>, <<" ">>, <<"a">>, <<" ", "a">>, <<" ", "a", CR>>, <<" ", "1", ".", " ", "a">> }

HeadingLike == { Hashes(n) \o t : n \in 0..MaxHashes, t \in Tails }

MarkerLike ==
    { [k \in 1..n |-> EACUTE] \o t : n \in 0..MaxWide,
                                     t \in { <<".", " ", "a">>, <<"1", ".", " ", "a">>,
                                             <<".", "a">>, <<"a", ".">>, <<"1", ".", " ", "a", CR>> } }

SpanLike ==
    { <<"*", "*", "a", "*", "*">>, <<"*", "a", "*">>, <<BT, "a", BT>>,
      <<"[", "a", "]", "(", "b", ")">>, HR_LINE, HR_LINE \o <<"-">>,
      <<"-", " ", "a", CR>>, <<"-", "a">> }

MaxSpans == 2        \* inline spans on a span-sequence line

\* The source text of one inline span of each kind, and a plain word
SpanKinds == {"bold", "ital", "code", "link", "word"}

SpanSource(kind) ==
    CASE kind = "bold" -> <<"*", "*", "a", "*", "*">>
      [] kind = "ital" -> <<"*", "a", "*">>
      [] kind = "code" -> <<BT, "a", BT>>
      [] kind = "link" -> <<"[", "a", "]", "(", "b", ")">>
      [] kind = "word" -> <<"c">>

SpanSeqs == UNION { [1..n -> SpanKinds] : n \in 1..MaxSpans }

\* The pieces of a sequence, with one space between two
RECURSIVE JoinSpans(_)
JoinSpans(ps) ==
    IF Len(ps) = 1 THEN ps[1]
    ELSE ps[1] \o <<" ">> \o JoinSpans(Tail(ps))

SourceOf(ks) == JoinSpans([i \in 1..Len(ks) |-> SpanSource(ks[i])])

\* Lines of up to MaxSpans spans and words separated by single spaces
SpanSeqLike == { SourceOf(ks) : ks \in SpanSeqs }

WideLines == HeadingLike \cup MarkerLike \cup SpanLike \cup SpanSeqLike

\* The file holding the lines ls, each ended by a line feed
RECURSIVE Unlines(_)
Unlines(ls) == IF ls = <<>> THEN <<>> ELSE Head(ls) \o <<LF>> \o Unlines(Tail(ls))

\* Input files: documents of up to MaxLines lines of Pool, and single lines of
\* WideLines with no line feed at the end.
Inputs ==
    { Unlines(d) : d \in UNION { [1..n -> Pool] : n \in 0..MaxLines } } \cup WideLines

NoFile == <<"NOFILE">>       \* the output file before the first write

----------------------------------------------------------------------------
(* SpecConvert: main up to its return or its entry into live mode, with     *)
(* convert() taken one call at a time.                                      *)

MaxRequests == 2     \* HTTP requests (one thread each) in a run
MaxEvents == 2       \* notify results in a run

Handlers == 1..MaxRequests

\* Before start_live_server (292-302) and recommended_watcher (323-330)
LiveIdle ==
    /\ reload_flag = FALSE /\ events = <<>> /\ wpc = "off" /\ wbuf = <<>>
    /\ hpc = [h \in Handlers |-> "none"] /\ connected = [h \in Handlers |-> FALSE]
    /\ mpc = "convert"
    /\ nevents = 0 /\ written = 0 /\ stored = 0 /\ firstPoll = -1
    /\ seen = [h \in Handlers |-> 0] /\ delivered = [h \in Handlers |-> FALSE]
    /\ raced = FALSE

InitConvert ==
    /\ watch \in BOOLEAN
    /\ inputFile \in Inputs
    /\ outputFile = NoFile
    /\ lines = <<>> /\ line_states = <<>> /\ file_lines = <<>> /\ text = <<>>
    /\ stage = "start"
    /\ LiveIdle

\* 226
ParseFile ==
    /\ stage = "start"
    /\ file_lines' = parse_file(inputFile)
    /\ lines' = file_lines'
    /\ stage' = "parsed"
    /\ UNCHANGED <<watch, fileVars, line_states, text, liveVars, histVars>>

\* 243
Classify ==
    /\ stage = "parsed"
    /\ line_states' = classify_lines(file_lines)
    /\ stage' = "classified"
    /\ UNCHANGED <<watch, fileVars, lines, file_lines, text, liveVars, histVars>>

\* 244-248; a panic of parse_line unwinds the thread
Transform ==
    /\ stage = "classified"
    /\ file_lines' = TransformLines(file_lines, line_states)
    /\ stage' = IF Panics(file_lines') THEN "panicked" ELSE "transformed"
    /\ UNCHANGED <<watch, fileVars, lines, line_states, text, liveVars, histVars>>

\* 249
Render ==
    /\ stage = "transformed"
    /\ text' = convert_lines(file_lines, line_states)
    /\ stage' = "rendered"
    /\ UNCHANGED <<watch, fileVars, lines, line_states, file_lines, liveVars, histVars>>

\* 250-251
WriteOutput ==
    /\ stage = "rendered"
    /\ outputFile' = wrap_html(text, INPUT_PATH, STYLE)
    /\ stage' = "written"
    /\ UNCHANGED <<watch, inputFile, lines, line_states, file_lines, text, liveVars, histVars>>

\* 314-316
MainReturn ==
    /\ stage = "written" /\ ~watch
    /\ stage' = "exited"
    /\ UNCHANGED <<watch, fileVars, lines, line_states, file_lines, text, liveVars, histVars>>

\* 317-336
MainLive ==
    /\ stage = "written" /\ watch
    /\ stage' = "live"
    /\ UNCHANGED <<watch, fileVars, lines, line_states, file_lines, text, liveVars, histVars>>

NextConvert ==
    \/ ParseFile \/ Classify \/ Transform \/ Render \/ WriteOutput \/ MainReturn \/ MainLive

SpecConvert == InitConvert /\ [][NextConvert]_vars

----------------------------------------------------------------------------
(* Spec: the whole program. convert() is one step of main; in the watcher   *)
(* callback it is two, the read of the input and the write of the output.   *)

\* What the input file may hold in a run: a list item, and a line on which
\* parse_lists panics.
LiveInputs ==
    { Unlines(<< <<"-", " ", "a">> >>),
      <<EACUTE, EACUTE, EACUTE, ".", " ", "a">> }

PipeIdle ==
    lines = <<>> /\ line_states = <<>> /\ file_lines = <<>> /\ text = <<>> /\ stage = "start"

Init ==
    /\ watch \in BOOLEAN
    /\ inputFile \in LiveInputs
    /\ outputFile = NoFile
    /\ PipeIdle
    /\ LiveIdle

\* 312; a panic of convert ends the process
MainConvert ==
    /\ mpc = "convert"
    /\ LET out == convert(inputFile)
       IN  IF out = Panic
           THEN mpc' = "panicked" /\ UNCHANGED outputFile
           ELSE mpc' = "converted" /\ outputFile' = out
    /\ UNCHANGED <<watch, inputFile, pipeVars, reload_flag, events, wpc, wbuf, hpc,
                   connected, histVars>>

\* 314-316
MainExit ==
    /\ mpc = "converted" /\ ~watch
    /\ mpc' = "exited"
    /\ UNCHANGED <<watch, fileVars, pipeVars, reload_flag, events, wpc, wbuf, hpc,
                   connected, histVars>>

\* 317-336: the server thread and the watcher are started, main sleeps for ever
MainStartLive ==
    /\ mpc = "converted" /\ watch
    /\ mpc' = "live"
    /\ wpc' = "idle"
    /\ UNCHANGED <<watch, fileVars, pipeVars, reload_flag, events, wbuf, hpc,
                   connected, histVars>>

\* The environment: the input file is rewritten and notify queues Ok(event)
FileChange(c) ==
    /\ mpc = "live" /\ nevents < MaxEvents
    /\ inputFile' = c
    /\ events' = Append(events, "Ok")
    /\ nevents' = nevents + 1
    /\ UNCHANGED <<watch, outputFile, pipeVars, reload_flag, wpc, wbuf, hpc, connected,
                   mpc, written, stored, firstPoll, seen, delivered, raced>>

\* The environment: notify queues Err(e)
WatchError ==
    /\ mpc = "live" /\ nevents < MaxEvents
    /\ events' = Append(events, "Err")
    /\ nevents' = nevents + 1
    /\ UNCHANGED <<watch, fileVars, pipeVars, reload_flag, wpc, wbuf, hpc, connected,
                   mpc, written, stored, firstPoll, seen, delivered, raced>>

\* CallbackErr that goes on to convert as the Ok arm does
CallbackErr_Reconverts ==
    /\ wpc = "idle" /\ events # <<>> /\ Head(events) = "Err"
    /\ events' = Tail(events)
    /\ wpc' = "read"
    /\ UNCHANGED <<watch, fileVars, pipeVars, reload_flag, wbuf, hpc, connected,
                   mpc, histVars>>

\* 329
CallbackErr ==
    /\ wpc = "idle" /\ events # <<>> /\ Head(events) = "Err"
    /\ events' = Tail(events)
    /\ UNCHANGED <<watch, fileVars, pipeVars, reload_flag, wpc, wbuf, hpc, connected,
                   mpc, histVars>>

\* 324-325
CallbackOk ==
    /\ wpc = "idle" /\ events # <<>> /\ Head(events) = "Ok"
    /\ events' = Tail(events)
    /\ wpc' = "read"
    /\ UNCHANGED <<watch, fileVars, pipeVars, reload_flag, wbuf, hpc, connected,
                   mpc, histVars>>

\* CallbackRead with the store(true) of 327 moved before convert
CallbackRead_StoreEarly ==
    /\ wpc = "read"
    /\ wbuf' = inputFile
    /\ reload_flag' = TRUE
    /\ stored' = stored + 1
    /\ wpc' = "write"
    /\ UNCHANGED <<watch, fileVars, pipeVars, events, hpc, connected,
                   mpc, nevents, written, firstPoll, seen, delivered, raced>>

\* 326, convert's parse_file (226)
CallbackRead ==
    /\ wpc = "read"
    /\ wbuf' = inputFile
    /\ wpc' = "write"
    /\ UNCHANGED <<watch, fileVars, pipeVars, reload_flag, events, hpc, connected,
                   mpc, histVars>>

\* 326, convert's 228-251; a panic ends the watcher's thread
CallbackWrite ==
    /\ wpc = "write"
    /\ LET out == convert(wbuf)
       IN  IF out = Panic
           THEN wpc' = "dead" /\ UNCHANGED <<outputFile, written>>
           ELSE wpc' = "store" /\ outputFile' = out /\ written' = written + 1
    /\ UNCHANGED <<watch, inputFile, pipeVars, reload_flag, events, wbuf, hpc, connected,
                   mpc, nevents, stored, firstPoll, seen, delivered, raced>>

\* 327
CallbackStore ==
    /\ wpc = "store"
    /\ reload_flag' = TRUE
    /\ stored' = stored + 1
    /\ wpc' = "idle"
    /\ UNCHANGED <<watch, fileVars, pipeVars, events, wbuf, hpc, connected,
                   mpc, nevents, written, firstPoll, seen, delivered, raced>>

\* 259-266: a request arrives and its thread is spawned; requests are numbered
\* in their order of arrival
Accept(h, url) ==
    /\ mpc = "live" /\ hpc[h] = "none"
    /\ \A g \in Handlers : g < h => hpc[g] # "none"
    /\ hpc' = [hpc EXCEPT ![h] = IF url = "/reload" THEN "load" ELSE "serve"]
    /\ connected' = [connected EXCEPT ![h] = TRUE]
    /\ UNCHANGED <<watch, fileVars, pipeVars, reload_flag, events, wpc, wbuf, mpc, histVars>>

\* 280-285
ServeFile(h) ==
    /\ hpc[h] = "serve"
    /\ hpc' = [hpc EXCEPT ![h] = "done"]
    /\ UNCHANGED <<watch, fileVars, pipeVars, reload_flag, events, wpc, wbuf, connected,
                   mpc, histVars>>

\* 268: reload_flag.load
Load(h) ==
    /\ hpc[h] = "load"
    /\ firstPoll' = IF firstPoll = -1 THEN stored ELSE firstPoll
    /\ IF reload_flag
       THEN /\ hpc' = [hpc EXCEPT ![h] = "store"]
            /\ seen' = [seen EXCEPT ![h] = stored]
            /\ raced' = (raced \/ \E g \in Handlers \ {h} : hpc[g] = "store")
       ELSE /\ hpc' = [hpc EXCEPT ![h] = "sleep"]
            /\ UNCHANGED <<seen, raced>>
    /\ UNCHANGED <<watch, fileVars, pipeVars, reload_flag, events, wpc, wbuf, connected,
                   mpc, nevents, written, stored, delivered>>

\* 277
Sleep(h) ==
    /\ hpc[h] = "sleep"
    /\ hpc' = [hpc EXCEPT ![h] = "load"]
    /\ UNCHANGED <<watch, fileVars, pipeVars, reload_flag, events, wpc, wbuf, connected,
                   mpc, histVars>>

\* ResetFlag without the store(false) of 269
ResetFlag_NoReset(h) ==
    /\ hpc[h] = "store"
    /\ hpc' = [hpc EXCEPT ![h] = "respond"]
    /\ UNCHANGED <<watch, fileVars, pipeVars, reload_flag, events, wpc, wbuf, connected,
                   mpc, histVars>>

\* 269: reload_flag.store(false)
ResetFlag(h) ==
    /\ hpc[h] = "store"
    /\ reload_flag' = FALSE
    /\ hpc' = [hpc EXCEPT ![h] = "respond"]
    /\ UNCHANGED <<watch, fileVars, pipeVars, events, wpc, wbuf, connected, mpc, histVars>>

\* 270-275: the event reaches the client if it is still there; an error of
\* respond is dropped (`let _ =`)
Respond(h) ==
    /\ hpc[h] = "respond"
    /\ delivered' = [delivered EXCEPT ![h] = connected[h]]
    /\ hpc' = [hpc EXCEPT ![h] = "done"]
    /\ UNCHANGED <<watch, fileVars, pipeVars, reload_flag, events, wpc, wbuf, connected,
                   mpc, nevents, written, stored, firstPoll, seen, raced>>

\* The environment: the client of a /reload request in progress closes its connection
Disconnect(h) ==
    /\ connected[h] /\ hpc[h] \in {"load", "sleep", "store", "respond"}
    /\ connected' = [connected EXCEPT ![h] = FALSE]
    /\ UNCHANGED <<watch, fileVars, pipeVars, reload_flag, events, wpc, wbuf, hpc,
                   mpc, histVars>>

Next ==
    \/ MainConvert \/ MainExit \/ MainStartLive
    \/ \E c \in LiveInputs : FileChange(c)
    \/ WatchError \/ CallbackErr \/ CallbackOk \/ CallbackRead \/ CallbackWrite \/ CallbackStore
    \/ \E h \in Handlers : \E url \in {"/reload", "/"} : Accept(h, url)
    \/ \E h \in Handlers :
          ServeFile(h) \/ Load(h) \/ Sleep(h) \/ ResetFlag(h) \/ Respond(h) \/ Disconnect(h)

Spec == Init /\ [][Next]_vars

\* The threads of the program are scheduled by the OS: main, the watcher's
\* callback and every handler thread keep taking their steps. The environment
\* (file changes, watch errors, requests, disconnections) owes nothing.
\* For the two steps that run convert, weak fairness is written out with the
\* step's guard as its enabling condition: []<>~ENABLED <<A>>_vars \/ []<><<A>>_vars.
ThreadFairness ==
    /\ []<>(mpc # "convert") \/ []<><<MainConvert>>_vars
    /\ WF_vars(MainExit \/ MainStartLive)
    /\ WF_vars(CallbackErr \/ CallbackOk \/ CallbackRead \/ CallbackStore)
    /\ []<>(wpc # "write") \/ []<><<CallbackWrite>>_vars
    /\ \A h \in Handlers :
          WF_vars(ServeFile(h) \/ Load(h) \/ Sleep(h) \/ ResetFlag(h) \/ Respond(h))

FairSpec == Init /\ [][Next]_vars /\ ThreadFairness

----------------------------------------------------------------------------
(* Claims about the watch/reload bridge, checked under Spec *)

\* The reload events delivered by handlers that loaded the flag when `stored` was b
DeliveredFor(b) == {h \in Handlers : delivered[h] /\ seen[h] = b}

\* C1: a reload event is sent only after a conversion triggered by a file change
\* has been completed and written: the callback stores true only after its
\* convert() has written the output (stored <= written), and a handler that is
\* resetting the flag, responding, or has delivered, loaded the flag true after
\* such a store.
C1_ReloadAfterWrite ==
    /\ stored <= written
    /\ (reload_flag => stored >= 1)
    /\ \A h \in Handlers :
          (hpc[h] \in {"store", "respond"} \/ delivered[h])
              => (1 <= seen[h] /\ seen[h] <= written /\ outputFile # NoFile)

C1_Witness ==
    \E h \in Handlers : delivered[h] /\ seen[h] = 1 /\ written = 1

\* C2 as stated: two or more file changes handled before any handler polls
\* give at most one delivered reload event.
C2_OneEventPerCoalescedSignal ==
    firstPoll >= 2 => Cardinality(DeliveredFor(firstPoll)) <= 1

\* C2 as amended: two or more file changes handled before any handler polls
\* leave one pending signal (a flag, not a count); they give at most one
\* delivered reload event unless a second handler loads the flag while a first
\* one has loaded it true and not yet reset it.
C2_OneEventUnlessRaced ==
    /\ (stored >= 2 /\ firstPoll = -1) => reload_flag
    /\ (firstPoll >= 2 /\ ~raced) => Cardinality(DeliveredFor(firstPoll)) <= 1

C2_Witness ==
    /\ firstPoll = 2 /\ ~raced /\ stored = 2 /\ ~reload_flag
    /\ Cardinality(DeliveredFor(2)) = 1
    /\ \E h \in Handlers : hpc[h] = "sleep" /\ seen[h] = 0

\* C7: a /reload handler whose client has disconnected stops polling and does
\* not reset the flag afterwards: it takes no further step of its loop.
C7_StopsAfterDisconnect ==
    [][\A h \in Handlers :
          (~connected[h] /\ hpc[h] \in {"load", "sleep", "store"}) => hpc'[h] = hpc[h]]_vars

----------------------------------------------------------------------------
(* Claims about the conversion pipeline, checked under SpecConvert *)

Classified == stage \in {"classified", "transformed", "rendered", "written", "exited", "live"}
Transformed == stage \in {"transformed", "rendered", "written", "exited", "live"}
Rendered == stage \in {"rendered", "written", "exited", "live"}
Written == stage \in {"written", "exited", "live"}

NLines == Len(lines)

\* The body as it stood when the renderer had gone through the first k lines
TextUpTo(k) == RenderLoop(file_lines, line_states, k).text

\* What the renderer added to the body for line k
Segment(k) == SubSeq(text, Len(TextUpTo(k - 1)) + 1, Len(TextUpTo(k)))

\* The body after the output of line k
After(k) == SubSeq(text, Len(TextUpTo(k)) + 1, Len(text))

\* A plain line, as the claims define it
PlainLine(k) ==
    line_states[k] = "Normal" /\ file_lines[k] # <<>> /\ file_lines[k][1] # "<"

ListState(st) == st \in {"OrderedList", "UnorderedList"}
OpenTag(st) == IF st = "OrderedList" THEN OL_OPEN ELSE UL_OPEN
CloseTag(st) == IF st = "OrderedList" THEN OL_CLOSE ELSE UL_CLOSE

\* A fence line, and whether it opens or closes (the flag starts false and is
\* toggled at every fence line)
FenceLine(k) == Len(lines[k]) >= 3 /\ \A j \in 1..3 : lines[k][j] = BT
FencesUpTo(k) == Cardinality({j \in 1..k : FenceLine(j)})
Opening(k) == FenceLine(k) /\ FencesUpTo(k) % 2 = 1
Closing(k) == FenceLine(k) /\ FencesUpTo(k) % 2 = 0

\* C3: the output document holds the reload script only in watch mode.
C3_ScriptOnlyInWatchMode ==
    Written => (Contains(outputFile, LIVE_RELOAD_SCRIPT) => watch)

\* C4: every run of list lines is rendered as a closed list: the opening tag
\* directly before the run's first item, the matching closing tag on the line
\* directly after its last item.
C4_ListRunsClosed ==
    Rendered =>
      \A k \in 1..NLines :
        ListState(line_states[k]) =>
          /\ (k = 1 \/ line_states[k - 1] # line_states[k])
                => Segment(k) = OpenTag(line_states[k]) \o <<LF>> \o file_lines[k] \o <<LF>>
          /\ (k = NLines \/ line_states[k + 1] # line_states[k])
                => StartsWith(After(k), CloseTag(line_states[k]) \o <<LF>>)

\* C5 as stated: the opening fence line is replaced by <pre><code>; the closing
\* fence line is blanked by the inline transformer and rendered as an empty line.
C5_ClosingFenceBlank ==
    Rendered =>
      \A k \in 1..NLines :
        /\ Opening(k) => EndsWith(Segment(k), PRE_OPEN \o <<LF>>)
        /\ Closing(k) => (file_lines[k] = <<>> /\ Segment(k) = <<LF>>)

\* C5 as amended: the opening fence line is replaced by <pre><code> (after the
\* </p> of a paragraph it ends); the closing fence line is not blanked (the
\* inline-code substitution has rewritten its first two backticks as
\* <code></code>, so the fence cleanup does not see a fence) and it is rendered
\* as </code></pre>, which closes the block.
C5_ClosingFenceCloses ==
    Rendered =>
      \A k \in 1..NLines :
        /\ Opening(k) =>
              /\ line_states[k] = "Code"
              /\ Segment(k) = (IF k > 1 /\ PlainLine(k - 1) THEN P_CLOSE \o <<LF>> ELSE <<>>)
                              \o PRE_OPEN \o <<LF>>
        /\ Closing(k) =>
              /\ line_states[k] = "Normal"
              /\ StartsWith(file_lines[k], CODE_OPEN \o CODE_CLOSE)
              /\ Segment(k) = PRE_CLOSE \o <<LF>>

C5_Witness ==
    /\ Rendered /\ NLines = 3
    /\ Opening(1) /\ ~FenceLine(2) /\ Closing(3)
    /\ lines[3] = FENCE

\* C6: classification, inline transformation and rendering never panic.
C6_NeverPanics == stage # "panicked"

\* The number of lines of a file: its line feeds, and one more for text after the last
FileLineCount(c) ==
    Count(c, <<LF>>) + (IF c # <<>> /\ c[Len(c)] # LF THEN 1 ELSE 0)

\* C8: one state per line, and the transformer keeps the number of lines and
\* splits none: the lines and the states have the length of the input's line
\* sequence at every stage up to rendering.
C8_LinesAndStatesAligned ==
    /\ stage # "start" =>
          /\ Len(lines) = FileLineCount(inputFile)
          /\ Len(file_lines) = Len(lines)
    /\ Classified =>
          /\ Len(line_states) = Len(file_lines)
          /\ \A k \in 1..Len(line_states) : line_states[k] \in States
    /\ Transformed => \A k \in 1..Len(file_lines) : ~Contains(file_lines[k], <<LF>>)

C8_Witness ==
    /\ Rendered /\ NLines = 3 /\ Len(line_states) = 3 /\ Len(file_lines) = 3
    /\ Opening(1) /\ Closing(3)

RECURSIVE LeadingHashes(_)
LeadingHashes(l) == IF l # <<>> /\ Head(l) = "#" THEN 1 + LeadingHashes(Tail(l)) ELSE 0

\* No character that starts an inline span
SpanFree(l) == \A j \in 1..Len(l) : l[j] \notin {"*", BT, "["}

\* C9: a line that is not Code and starts with N '#' and a space, 1 <= N <= 6,
\* becomes <hN>content</hN>, content being what follows the marker (the line
\* taken without its trailing carriage returns, the content holding no inline
\* span); a line with 7 or more leading '#' is left as it is.
C9_Headings ==
    Transformed =>
      \A k \in 1..NLines :
        line_states[k] # "Code" =>
          LET l == trim_end_cr(lines[k])
              n == LeadingHashes(l)
              content == SubSeq(l, n + 2, Len(l))
          IN  /\ (1 <= n /\ n <= 6 /\ Len(l) > n /\ l[n + 1] = " " /\ SpanFree(content))
                    => file_lines[k] = <<"<", "h", DigitChar(n), ">">> \o content
                                       \o <<"<", "/", "h", DigitChar(n), ">">>
              /\ (n >= 7 /\ SpanFree(l)) => file_lines[k] = l

C9_Witness ==
    /\ Transformed /\ NLines = 1
    /\ lines[1] = Hashes(6) \o <<" ", "a">>
    /\ file_lines[1] = <<"<", "h", "6", ">", "a", "<", "/", "h", "6", ">">>

\* The maximal runs of plain lines, by their first lines
RunStarts == {k \in 1..NLines : PlainLine(k) /\ (k = 1 \/ ~PlainLine(k - 1))}

\* C10: consecutive plain lines make one paragraph: <p> before the first, one
\* space and no line feed between two, and </p> before the output of the line
\* that follows the run, or at the end of the body.
C10_Paragraphs ==
    Rendered =>
      /\ \A k \in 1..NLines :
            IF PlainLine(k)
            THEN Segment(k) = (IF k > 1 /\ PlainLine(k - 1) THEN <<" ">> ELSE P_OPEN)
                              \o file_lines[k]
            ELSE (k > 1 /\ PlainLine(k - 1)) => StartsWith(Segment(k), P_CLOSE \o <<LF>>)
      /\ After(NLines) = (IF NLines > 0 /\ PlainLine(NLines) THEN P_CLOSE ELSE <<>>)
      /\ Count(text, P_OPEN) = Cardinality(RunStarts)
      /\ Count(text, P_CLOSE) = Cardinality(RunStarts)

C10_Witness ==
    /\ Rendered /\ NLines = 3
    /\ PlainLine(1) /\ PlainLine(2) /\ ~PlainLine(3)
    /\ StartsWith(Segment(3), P_CLOSE \o <<LF>>)
    /\ text = P_OPEN \o file_lines[1] \o <<" ">> \o file_lines[2] \o Segment(3)

----------------------------------------------------------------------------
(* Claims C11-C20 *)

\* The replacement of one inline span of each kind
SpanHtml(kind) ==
    CASE kind = "bold" -> STRONG_OPEN \o <<"a">> \o STRONG_CLOSE
      [] kind = "ital" -> EM_OPEN \o <<"a">> \o EM_CLOSE
      [] kind = "code" -> CODE_OPEN \o <<"a">> \o CODE_CLOSE
      [] kind = "link" -> A_OPEN \o <<"b">> \o A_MID \o <<"a">> \o A_CLOSE
      [] kind = "word" -> <<"c">>

HtmlOf(ks) == JoinSpans([i \in 1..Len(ks) |-> SpanHtml(ks[i])])

\* C11: on a line of spans and words separated by spaces, every span is
\* replaced by its HTML form (bold, italic, link, inline code; a line that is
\* exactly --- becomes <hr/>), each occurrence on its own; "**a**" gives
\* <strong>a</strong> with no <em> in the line.
C11_InlineSpans ==
    (Transformed /\ NLines = 1) =>
      /\ \A ks \in SpanSeqs :
            lines[1] = SourceOf(ks) => file_lines[1] = HtmlOf(ks)
      /\ lines[1] = HR_LINE => file_lines[1] = HR
      /\ lines[1] = HR_LINE \o <<"-">> => file_lines[1] = lines[1]
      /\ lines[1] = SpanSource("bold") =>
            (file_lines[1] = SpanHtml("bold") /\ ~Contains(file_lines[1], EM_OPEN))

C11_Witness ==
    /\ Transformed /\ NLines = 1
    /\ lines[1] = SourceOf(<<"bold", "ital">>)
    /\ file_lines[1] = HtmlOf(<<"bold", "ital">>)

\* The callback takes an Err event off the queue
TakesErr ==
    wpc = "idle" /\ events # <<>> /\ Head(events) = "Err" /\ events' = Tail(events)

\* C12: the step that handles a watch error starts no conversion (the callback
\* is idle again at once), leaves the output file, the reload flag and the
\* counts of writes and stores unchanged, and leaves main, the server's
\* handlers and their connections as they were; the events queued behind the
\* error are kept for the callback.
C12_WatchErrorIgnored ==
    [][TakesErr =>
         /\ wpc' = "idle" /\ wbuf' = wbuf
         /\ outputFile' = outputFile /\ reload_flag' = reload_flag
         /\ written' = written /\ stored' = stored
         /\ mpc' = mpc /\ hpc' = hpc /\ connected' = connected
         /\ delivered' = delivered]_vars

\* An error has been handled with nothing converted, and the callback is idle
\* with the file change queued behind the error next to be handled
C12_Witness ==
    /\ nevents = 2 /\ events = <<"Ok">> /\ wpc = "idle"
    /\ written = 0 /\ stored = 0 /\ ~reload_flag /\ mpc = "live"

\* C13: two reload events for one handled file change happen only when a
\* second handler loaded the flag true while a first one had loaded it true and
\* had not yet reset it; handlers that do not overlap in that window (a single
\* handler at a time) never deliver twice for one change.
C13_DuplicateNeedsOverlap ==
    \A b \in 1..MaxEvents : Cardinality(DeliveredFor(b)) >= 2 => raced

\* One file change, two handlers, two reload events
C13_Witness ==
    /\ nevents = 1 /\ stored = 1 /\ raced
    /\ Cardinality(DeliveredFor(1)) = 2

\* C14: once the flag has been set for a handled file change, every /reload
\* handler that is polling for a connected client at that time eventually
\* delivers a reload event to it; runs in which some client closes its
\* connection are left aside.
C14_EveryPollingClientNotified ==
    \A h \in Handlers :
        (reload_flag /\ connected[h] /\ hpc[h] \in {"load", "sleep"})
            ~> (delivered[h] \/ \E g \in Handlers : hpc[g] # "none" /\ ~connected[g])

\* The classification the two list passes give line k
ListPasses(k) == OrderedPass(lines, UnorderedPass(lines))[k]

\* C15: with the flag toggled at every fence line, a line after which the flag
\* is true (the opening fence and the lines behind it, to the end of the input
\* when the fence is not closed) is Code whatever the list passes gave it; every
\* other line, the closing fence included, keeps what the list passes gave it.
C15_CodeFencePass ==
    Classified =>
      \A k \in 1..NLines :
        /\ FencesUpTo(k) % 2 = 1 => line_states[k] = "Code"
        /\ FencesUpTo(k) % 2 = 0 => line_states[k] = ListPasses(k)

\* A list item inside a closed block, and one behind an unclosed fence
C15_Witness ==
    /\ Classified /\ NLines = 3
    /\ \/ /\ Opening(1) /\ Closing(3) /\ ListPasses(2) = "UnorderedList"
          /\ line_states = <<"Code", "Code", "Normal">>
       \/ /\ Opening(2) /\ ListPasses(3) = "OrderedList"
          /\ line_states[2] = "Code" /\ line_states[3] = "Code"

\* A line without its leading whitespace
RECURSIVE TrimStart(_)
TrimStart(line) ==
    IF line # <<>> /\ Head(line) \in {" ", CR} THEN TrimStart(Tail(line)) ELSE line

\* The inside-code flag of the classifier after its first k lines
InsideAfter(k) == CodePass(lines, OrderedPass(lines, UnorderedPass(lines)), k).inside

\* C16: line k toggles the inside-code flag exactly when its text, trimmed,
\* starts with the fence marker.
C16_TrimmedFenceToggles ==
    Classified =>
      \A k \in 1..NLines :
        (InsideAfter(k) # InsideAfter(k - 1)) <=> StartsWith(TrimStart(lines[k]), FENCE)

\* C17: the output of every Normal line that directly follows a list line ends
\* with the closing tag of that list, whether the line is blank, a block
\* element or plain text.
C17_ListClosedOnNextNormalLine ==
    Rendered =>
      \A k \in 2..NLines :
        (line_states[k] = "Normal" /\ ListState(line_states[k - 1]))
            => EndsWith(Segment(k), CloseTag(line_states[k - 1]) \o <<LF>>)

\* The renderer's loop state when it reaches line k
Before(k) == RenderLoop(file_lines, line_states, k - 1)

\* C18: a closing fence line is Normal after every pass of the classifier (the
\* list passes never mark a line that starts with the fence), the renderer
\* reaches it with previous state Code and no paragraph open, it is not a
\* plain line, and its output is exactly </code></pre> and a line feed,
\* whatever follows the marker on the line.
C18_ClosingFenceAlwaysCloses ==
    Rendered =>
      \A k \in 1..NLines :
        Closing(k) =>
          /\ ListPasses(k) = "Normal" /\ line_states[k] = "Normal"
          /\ Before(k).previous_state = "Code" /\ ~Before(k).in_paragraph
          /\ ~PlainLine(k)
          /\ Segment(k) = PRE_CLOSE \o <<LF>>

\* A closing fence with text behind the marker, after a list item inside the block
C18_Witness ==
    /\ Rendered /\ NLines = 3
    /\ Opening(1) /\ Closing(3)
    /\ lines[2] = DASH_SPACE \o <<"a">>
    /\ lines[3] = FENCE \o <<"a">>
    /\ text = PRE_OPEN \o <<LF>> \o lines[2] \o <<LF>> \o PRE_CLOSE \o <<LF>>

\* The renderer has just returned the body; no later step changes it
JustRendered == stage = "rendered"

\* Whether tag stands at position i of the body
TagAt(i, tag) == i + Len(tag) - 1 <= Len(text) /\ SubSeq(text, i, i + Len(tag) - 1) = tag

\* The opening of a block-level element: list wrappers and items, code
\* wrappers, headings (and rules)
BlockTags == {OL_OPEN, OL_CLOSE, UL_OPEN, UL_CLOSE, LI_OPEN, PRE_OPEN, PRE_CLOSE, <<"<", "h">>}

\* The body from position i on, read with a paragraph open or not: <p> only
\* when none is open, </p> only when one is open, no block tag while one is
\* open, none open at the end
RECURSIVE ParagraphsBalanced(_, _)
ParagraphsBalanced(i, open) ==
    IF i > Len(text) THEN ~open
    ELSE IF text[i] # "<" THEN ParagraphsBalanced(i + 1, open)
    ELSE IF TagAt(i, P_OPEN) THEN ~open /\ ParagraphsBalanced(i + 1, TRUE)
    ELSE IF TagAt(i, P_CLOSE) THEN open /\ ParagraphsBalanced(i + 1, FALSE)
    ELSE IF \E t \in BlockTags : TagAt(i, t) THEN ~open /\ ParagraphsBalanced(i + 1, open)
    ELSE ParagraphsBalanced(i + 1, open)

\* The renderer's own account: a paragraph is open after line k exactly when
\* line k is plain, and the output of a line that is not plain (a block line
\* by state or by its leading <, or a blank line) starts by closing it
C19_LineByLine ==
    \A k \in 1..NLines :
        /\ RenderLoop(file_lines, line_states, k).in_paragraph <=> PlainLine(k)
        /\ (~PlainLine(k) /\ Before(k).in_paragraph) => StartsWith(Segment(k), P_CLOSE \o <<LF>>)
        /\ (~PlainLine(k) /\ ~Before(k).in_paragraph) => ~Contains(Segment(k), P_CLOSE)

\* C19: in the rendered body <p> and </p> alternate starting with <p>, no
\* block-level output is emitted while a paragraph is open, and no paragraph is
\* open at the end.
C19_ParagraphsBalanced ==
    JustRendered => (ParagraphsBalanced(1, FALSE) /\ C19_LineByLine)

\* Two paragraphs with a list item between them
C19_Witness ==
    /\ Rendered /\ NLines = 3
    /\ PlainLine(1) /\ line_states[2] = "UnorderedList" /\ PlainLine(3)
    /\ Count(text, P_OPEN) = 2 /\ Count(text, P_CLOSE) = 2
    /\ EndsWith(text, P_CLOSE)

\* The body is the outputs of the lines one after the other, and the </p> of
\* a paragraph still open at the end
SegmentsInOrder ==
    /\ \A k \in 1..NLines : Len(TextUpTo(k - 1)) <= Len(TextUpTo(k))
    /\ \A k \in 0..NLines : TextUpTo(k) = SubSeq(text, 1, Len(TextUpTo(k)))
    /\ Len(text) - Len(TextUpTo(NLines)) \in {0, Len(P_CLOSE)}

\* C20: the output of a fence line is a wrapper tag and nothing of the line;
\* every other line is kept: the output of a Code line holds the line as
\* read, the output of any other line holds the line as parse_line
\* transformed it, and the outputs follow each other in input order.
C20_NoContentLineLost ==
    JustRendered =>
      /\ SegmentsInOrder
      /\ \A k \in 1..NLines :
           /\ Opening(k) => EndsWith(Segment(k), PRE_OPEN \o <<LF>>)
           /\ Closing(k) => Segment(k) = PRE_CLOSE \o <<LF>>
           /\ (~FenceLine(k) /\ line_states[k] = "Code")
                 => (file_lines[k] = lines[k] /\ EndsWith(Segment(k), lines[k] \o <<LF>>))
           /\ (~FenceLine(k) /\ line_states[k] # "Code")
                 => (file_lines[k] = parse_line(lines[k]) /\ Contains(Segment(k), file_lines[k]))

\* A heading transformed before a block, and the same text kept raw inside it
C20_Witness ==
    /\ Rendered /\ NLines = 3
    /\ lines[1] = <<"#", " ", "a">> /\ Opening(2) /\ lines[3] = lines[1]
    /\ Segment(1) = parse_headings(lines[1]) \o <<LF>>
    /\ Segment(3) = lines[3] \o <<LF>>
    /\ file_lines[1] # lines[1]

====
